---- MODULE Spec2Model ----
(***************************************************************************)
(* Model of the image edit application of zdql/technyc-demo:               *)
(*   - the job lifecycle controller, handleSubmit of                       *)
(*     src/components/image-generator.tsx, whose asynchronous handler is   *)
(*     cut at its awaits into one action per synchronous stretch;          *)
(*   - the edit and generate routes (validation, provider lookup and the   *)
(*     provider handlers) that answer the controller's requests.           *)
(* React state (model, imageHistory, submitting) is the state; a state     *)
(* updater passed to setImageHistory is applied in the order it is queued. *)
(***************************************************************************)
EXTENDS Integers, Sequences, FiniteSets, TLC

\* ---------------------------------------------------------------- bounds
\* calls of handleSubmit
MaxSubs == 2
\* Date.now() takes the values 0..MaxClock
MaxClock == 1
\* a submitted message carries 0..MaxFiles attachments
MaxFiles == 2

\* ------------------------------------------------------ program constants
PromptMinLen == 3
PromptMaxLen == 1000
FixedPromptLen == 370

\* ------------------------------------------------------------- JS values
\* A JavaScript value: its type t, the content s of a string whose content
\* matters, and the number n (a string's length, a number's value).
Undefined == [t |-> "undefined", s |-> "", n |-> 0]
Str(s, n) == [t |-> "string", s |-> s, n |-> n]
Num(n) == [t |-> "number", s |-> "", n |-> n]

\* !v
Falsy(v) ==
  \/ v.t \in {"undefined", "null"}
  \/ v.t = "string" /\ v.n = 0
  \/ v.t = "number" /\ v.n = 0

ModelOption == {"openai", "gemini"}

\* the data URL that fileToDataUrl makes of the blob of attachment k
DataUrl(k) == [t |-> "string", s |-> "data:", n |-> k]
\* the transient blob: URL of attachment k
BlobUrl(k) == [t |-> "string", s |-> "blob:", n |-> k]

\* the fixed scene prompt of handleSubmit
FixedPrompt == Str("Place this person into ... Times Square", FixedPromptLen)

\* ------------------------------------------------------------ attachments
ImageFile == [mediaType |-> "image/png", type |-> "file"]
TextFile == [mediaType |-> "text/plain", type |-> "file"]
OtherPart == [mediaType |-> "undefined", type |-> "text"]
FileKinds == {ImageFile, TextFile, OtherPart}

\* f.mediaType?.startsWith('image/')
IsImageMedia(f) == f.mediaType \in {"image/png", "image/jpeg"}

\* a variant of the selection that lets every part with a type pass
IsImageFile_anyType(f) == IsImageMedia(f) \/ f.type # ""

\* file.mediaType?.startsWith('image/') || file.type === 'file'
IsImageFile(f) == IsImageMedia(f) \/ f.type = "file"

\* message.files of a submission: 0..MaxFiles attachments
Messages == UNION {[1..n -> FileKinds] : n \in 0..MaxFiles}

\* ----------------------------------------------------------- error values
\* An error message: a fixed text, or `HTTP <status>: <body>`.
Msg(text) == [text |-> text, status |-> 0, body |-> ""]
HttpMsg(status, body) == [text |-> "HTTP", status |-> status, body |-> body]
NoMsg == Msg("")

\* a value that was thrown: an Error with a message, or something else
ErrorOf(msg) == [isError |-> TRUE, message |-> msg]
NonError == [isError |-> FALSE, message |-> NoMsg]

\* ------------------------------------------------------------- constants.ts
AUTH_FAILED == "Authentication failed. No token available."
NO_IMAGE_GENERATED == "No image was generated. Please try a different prompt."
NO_EDITED_IMAGE == "No edited image was generated. Please try a different edit prompt."

\* ------------------------------------------------------------ HTTP replies
\* Response.json(body, {status}): body is {imageUrl} or {error}.
JsonResponse(status, imageUrl, error) ==
  [status |-> status, json |-> TRUE, imageUrl |-> imageUrl, error |-> error]
\* a reply whose body is not the JSON of a route (made outside the handlers)
RawResponse(status, json) ==
  [status |-> status, json |-> json, imageUrl |-> Undefined, error |-> ""]
NoResponse == RawResponse(0, FALSE)

\* response.ok
Ok(resp) == resp.status \in 200..299

\* -------------------------------------------------------------- validation
Valid == [isValid |-> TRUE, message |-> "", status |-> 0]
Invalid(message) == [isValid |-> FALSE, message |-> message, status |-> 400]

\* validModels.includes(v): strict equality with 'openai' or 'gemini'
IsModelOption(v) == v.t = "string" /\ v.s \in ModelOption

\* !prompt || typeof prompt !== 'string'
PromptMissing(prompt) == Falsy(prompt) \/ prompt.t # "string"

\* a variant of the length test that refuses a prompt of the greatest length
PromptLengthBad_exclusiveUpper(prompt) ==
  prompt.n < PromptMinLen \/ prompt.n >= PromptMaxLen

\* prompt.length < 3 || prompt.length > 1000
PromptLengthBad(prompt) == prompt.n < PromptMinLen \/ prompt.n > PromptMaxLen

\* A request body: parses is whether req.json() returns a value, isObject
\* is `body && typeof body === 'object'` of that value, and the fields are
\* those the routes destructure.
validateGenerateImageRequest(body) ==
  IF ~body.isObject THEN Invalid("Invalid request body")
  ELSE IF PromptMissing(body.prompt) THEN Invalid("Prompt is required")
  ELSE IF PromptLengthBad(body.prompt) THEN Invalid("Prompt must be 3-1000 characters")
  ELSE IF Falsy(body.model) \/ ~IsModelOption(body.model)
    THEN Invalid("Model must be: openai, gemini")
  ELSE Valid

\* a variant of the imageUrls test that lets an empty array pass
ImageUrlsBad_allowsEmpty(imageUrls) == imageUrls.t # "array"

\* imageUrls of a body: [t, elems]; t is "array" for an array
ImageUrlsBad(imageUrls) == imageUrls.t # "array" \/ Len(imageUrls.elems) = 0

validateEditImageRequest(body) ==
  IF ~body.isObject THEN Invalid("Invalid request body")
  ELSE IF Falsy(body.provider) \/ ~IsModelOption(body.provider)
    THEN Invalid("Provider must be: openai, gemini")
  ELSE IF PromptMissing(body.prompt) THEN Invalid("Prompt is required")
  ELSE IF PromptLengthBad(body.prompt) THEN Invalid("Prompt must be 3-1000 characters")
  ELSE IF ImageUrlsBad(body.imageUrls) THEN Invalid("At least one image is required")
  ELSE IF \E i \in DOMAIN body.imageUrls.elems : body.imageUrls.elems[i].t # "string"
    THEN Invalid("All image URLs must be strings")
  ELSE Valid

\* --------------------------------------------------------- provider handlers
\* What the external model call of a handler does: it returns an image, it
\* returns nothing (no file, an empty data list, no image), it returns an
\* entry that holds no image data ("blank"), it throws an Error, it throws
\* something else; for the OpenAI edit handler also what getEchoToken does
\* first.
UpstreamOutcomes == {"image", "empty", "blank", "throws", "throwsNonError"}
TokenOutcomes == {"token", "noToken", "tokenThrows"}

\* the image the model returns for the inputs of a request: it is made from
\* the first input image (n names the source), or from the prompt alone
EditedImage(imageUrls) ==
  [t |-> "string", s |-> "data:edited",
   n |-> IF Len(imageUrls) > 0 THEN imageUrls[1].n ELSE 0]
GeneratedFromPrompt(prompt) == [t |-> "string", s |-> "data:generated", n |-> prompt.n]

\* A handler's result: the Response it resolves to, or a rejected promise.
Resolved(handler, resp) == [handler |-> handler, rejected |-> FALSE, resp |-> resp]
Rejected(handler) == [handler |-> handler, rejected |-> TRUE, resp |-> NoResponse]
NoDispatch(resp) == [handler |-> "none", rejected |-> FALSE, resp |-> resp]

UpstreamError == "upstream error message"

\* the message of the Error raised where an image is missing, as that of
\* the TypeError of reading a property of undefined
UndefinedReadError == "Cannot read properties of undefined"

\* `data:image/png;base64,${undefined}`: the URL made of an entry without
\* b64_json
BlankImage == [t |-> "string", s |-> "data:image/png;base64,undefined", n |-> 0]

\* dataUrlToFile(url): atob throws unless the url has a base64 part
IsDataUrl(url) == url.t = "string" /\ url.s \in {"data:", "data:edited", "data:generated"}

handleOpenAIEdit(prompt, imageUrls, token, up) ==
  IF token = "tokenThrows" THEN Rejected("handleOpenAIEdit")
  ELSE IF token = "noToken"
    THEN Resolved("handleOpenAIEdit", JsonResponse(401, Undefined, AUTH_FAILED))
  ELSE IF \E i \in DOMAIN imageUrls : ~IsDataUrl(imageUrls[i])
    THEN Resolved("handleOpenAIEdit", JsonResponse(500, Undefined, "InvalidCharacterError"))
  ELSE Resolved("handleOpenAIEdit",
         CASE up = "image" -> JsonResponse(200, EditedImage(imageUrls), "")
           [] up = "empty" -> JsonResponse(500, Undefined, NO_EDITED_IMAGE)
           [] up = "blank" -> JsonResponse(200, BlankImage, "")
           [] up = "throws" -> JsonResponse(500, Undefined, UpstreamError)
           [] OTHER -> JsonResponse(500, Undefined, NO_EDITED_IMAGE))

handleGoogleEdit(prompt, imageUrls, up) ==
  Resolved("handleGoogleEdit",
    CASE up = "image" -> JsonResponse(200, EditedImage(imageUrls), "")
      [] up \in {"empty", "blank"} -> JsonResponse(500, Undefined, NO_EDITED_IMAGE)
      [] up = "throws" -> JsonResponse(500, Undefined, UpstreamError)
      [] OTHER -> JsonResponse(500, Undefined, NO_EDITED_IMAGE))

\* the handler reads result.image.mediaType without a test: without an
\* image the call or the read throws an Error, and the catch block reports
\* the message of that Error
handleOpenAIGenerate(prompt, up) ==
  Resolved("handleOpenAIGenerate",
    CASE up = "image" -> JsonResponse(200, GeneratedFromPrompt(prompt), "")
      [] up \in {"empty", "blank"} -> JsonResponse(500, Undefined, UndefinedReadError)
      [] up = "throws" -> JsonResponse(500, Undefined, UpstreamError)
      [] OTHER -> JsonResponse(500, Undefined, NO_IMAGE_GENERATED))

handleGoogleGenerate(prompt, up) ==
  Resolved("handleGoogleGenerate",
    CASE up = "image" -> JsonResponse(200, GeneratedFromPrompt(prompt), "")
      [] up \in {"empty", "blank"} -> JsonResponse(500, Undefined, NO_IMAGE_GENERATED)
      [] up = "throws" -> JsonResponse(500, Undefined, UpstreamError)
      [] OTHER -> JsonResponse(500, Undefined, NO_IMAGE_GENERATED))

\* --------------------------------------------------- the data URL encoding
\* A text is the sequence of its characters; a byte is a number in 0..255.
MaxBytes == 3
MaxTypeLen == 2

ByteValues == {0, 165, 255}
ByteSeqs == UNION {[1..n -> ByteValues] : n \in 0..MaxBytes}

\* file.type: media types of images, media types with a parameter, and every
\* short text over the characters that matter to the decoder
TypeChars == {"a", "/", ";", ","}
MediaTypes ==
  {<<"i", "m", "a", "g", "e", "/", "p", "n", "g">>,
   <<"i", "m", "a", "g", "e", "/", "j", "p", "e", "g">>,
   <<"i", "m", "a", "g", "e", "/", "s", "v", "g", "+", "x", "m", "l">>,
   <<"i", "m", "a", "g", "e", "/", "s", "v", "g", "+", "x", "m", "l", ";", "c", "h", "a", "r", "s", "e", "t", "=", "u", "t", "f", "-", "8">>,
   <<"t", "e", "x", "t", "/", "p", "l", "a", "i", "n", ";", "a", "=", "b", ",", "c">>}
    \cup UNION {[1..n -> TypeChars] : n \in 1..MaxTypeLen}

Base64Alphabet ==
  <<"A", "B", "C", "D", "E", "F", "G", "H", "I", "J", "K", "L", "M", "N", "O", "P",
    "Q", "R", "S", "T", "U", "V", "W", "X", "Y", "Z", "a", "b", "c", "d", "e", "f",
    "g", "h", "i", "j", "k", "l", "m", "n", "o", "p", "q", "r", "s", "t", "u", "v",
    "w", "x", "y", "z", "0", "1", "2", "3", "4", "5", "6", "7", "8", "9", "+", "/">>

Base64Chars == {Base64Alphabet[i] : i \in 1..64}
Base64Index(c) == (CHOOSE i \in 1..64 : Base64Alphabet[i] = c) - 1
Base64Char(v) == Base64Alphabet[v + 1]

\* the base64 of a byte sequence, as readAsDataURL and btoa produce it: three
\* bytes make four characters, and the last group is padded with '='
RECURSIVE btoa(_)
btoa(b) ==
  IF Len(b) = 0 THEN <<>>
  ELSE IF Len(b) = 1 THEN
    <<Base64Char(b[1] \div 4), Base64Char((b[1] % 4) * 16), "=", "=">>
  ELSE IF Len(b) = 2 THEN
    <<Base64Char(b[1] \div 4), Base64Char((b[1] % 4) * 16 + b[2] \div 16),
      Base64Char((b[2] % 16) * 4), "=">>
  ELSE
    <<Base64Char(b[1] \div 4), Base64Char((b[1] % 4) * 16 + b[2] \div 16),
      Base64Char((b[2] % 16) * 4 + b[3] \div 64), Base64Char(b[3] % 64)>>
      \o btoa(SubSeq(b, 4, Len(b)))

\* the bytes of base64 characters without padding; the bits left over in the
\* last group are dropped
RECURSIVE DecodeGroups(_)
DecodeGroups(c) ==
  LET v(i) == Base64Index(c[i]) IN
  IF Len(c) < 2 THEN <<>>
  ELSE IF Len(c) = 2 THEN <<v(1) * 4 + v(2) \div 16>>
  ELSE IF Len(c) = 3 THEN <<v(1) * 4 + v(2) \div 16, (v(2) % 16) * 16 + v(3) \div 4>>
  ELSE
    <<v(1) * 4 + v(2) \div 16, (v(2) % 16) * 16 + v(3) \div 4, (v(3) % 4) * 64 + v(4)>>
      \o DecodeGroups(SubSeq(c, 5, Len(c)))

\* the text without the one or two '=' that may end a text whose length is a
\* multiple of four
StripPadding(c) ==
  IF Len(c) = 0 \/ Len(c) % 4 # 0 THEN c
  ELSE IF c[Len(c)] = "=" /\ c[Len(c) - 1] = "=" THEN SubSeq(c, 1, Len(c) - 2)
  ELSE IF c[Len(c)] = "=" THEN SubSeq(c, 1, Len(c) - 1)
  ELSE c

\* atob(text): the character codes of the decoded text, or it throws
atob(c) ==
  LET data == StripPadding(c) IN
  IF Len(data) % 4 = 1 \/ \E i \in DOMAIN data : data[i] \notin Base64Chars
    THEN [threw |-> TRUE, codes |-> <<>>]
    ELSE [threw |-> FALSE, codes |-> DecodeGroups(data)]

\* the position of the first ch in text at or after from, or 0
IndexOf(text, ch, from) ==
  IF \E i \in from..Len(text) : text[i] = ch
    THEN CHOOSE i \in from..Len(text) :
           text[i] = ch /\ \A j \in from..(i - 1) : text[j] # ch
    ELSE 0

\* const [header, base64] = dataUrl.split(','): the first two pieces; the
\* second is undefined when the text has no comma
SplitHeader(dataUrl) ==
  LET i == IndexOf(dataUrl, ",", 1) IN
  IF i = 0 THEN dataUrl ELSE SubSeq(dataUrl, 1, i - 1)
SplitBase64(dataUrl) ==
  LET i == IndexOf(dataUrl, ",", 1)
      j == IF i = 0 THEN 0 ELSE IndexOf(dataUrl, ",", i + 1) IN
  IF i = 0 THEN <<"u", "n", "d", "e", "f", "i", "n", "e", "d">>
  ELSE IF j = 0 THEN SubSeq(dataUrl, i + 1, Len(dataUrl))
  ELSE SubSeq(dataUrl, i + 1, j - 1)

ImagePng == <<"i", "m", "a", "g", "e", "/", "p", "n", "g">>

\* header.match(/:(.*?);/)?.[1] || 'image/png': the text between the first
\* ':' and the first ';' after it; without such a text, or with an empty
\* one, the default
MimeOf(header) ==
  LET i == IndexOf(header, ":", 1)
      j == IF i = 0 THEN 0 ELSE IndexOf(header, ";", i + 1) IN
  IF i = 0 \/ j = 0 \/ j = i + 1 THEN ImagePng
  ELSE SubSeq(header, i + 1, j - 1)

\* reader.readAsDataURL(file): data:<type>;base64,<base64 of the bytes>
fileToDataUrl(bytes, type) ==
  <<"d", "a", "t", "a", ":">> \o type \o <<";", "b", "a", "s", "e", "6", "4", ",">>
    \o btoa(bytes)

\* a variant of the decoder that drops the media type of the header
dataUrlToFile_defaultType(dataUrl) ==
  LET bytes == atob(SplitBase64(dataUrl)) IN
  [threw |-> bytes.threw,
   bytes |-> [i \in DOMAIN bytes.codes |-> bytes.codes[i] % 256],
   type |-> ImagePng]

\* dataUrlToFile(dataUrl, filename): the File, or atob's exception
dataUrlToFile(dataUrl) ==
  LET bytes == atob(SplitBase64(dataUrl)) IN
  [threw |-> bytes.threw,
   bytes |-> [i \in DOMAIN bytes.codes |-> bytes.codes[i] % 256],
   type |-> IF bytes.threw THEN <<>> ELSE MimeOf(SplitHeader(dataUrl))]

\* ------------------------------------------------------------------ routes
\* const providers = { openai: ..., gemini: ... } of the edit route
editProviders(provider, prompt, imageUrls, token, up) ==
  IF provider = "openai" THEN handleOpenAIEdit(prompt, imageUrls, token, up)
  ELSE handleGoogleEdit(prompt, imageUrls, up)

\* const providers = { openai: ..., gemini: ... } of the generate route
generateProviders(model, prompt, up) ==
  IF model = "openai" THEN handleOpenAIGenerate(prompt, up)
  ELSE handleGoogleGenerate(prompt, up)

\* the message of the SyntaxError that req.json() throws
JsonSyntaxError == "Unexpected token in JSON"

\* POST of the edit route; parses is whether `await req.json()` returns
POST_edit(body, token, up) ==
  LET validation == validateEditImageRequest(body) IN
  IF ~body.parses THEN NoDispatch(JsonResponse(500, Undefined, JsonSyntaxError))
  ELSE IF ~validation.isValid
    THEN NoDispatch(JsonResponse(validation.status, Undefined, validation.message))
  ELSE IF body.provider.s \notin ModelOption
    THEN NoDispatch(JsonResponse(400, Undefined, "Unsupported provider"))
  ELSE editProviders(body.provider.s, body.prompt, body.imageUrls.elems, token, up)

\* a variant of the generate route that looks up the handler without validating
POST_generate_skipsValidation(body, up) ==
  IF ~body.parses THEN NoDispatch(JsonResponse(500, Undefined, JsonSyntaxError))
  ELSE IF body.model.s \notin ModelOption
    THEN NoDispatch(JsonResponse(400, Undefined, "Unsupported model"))
  ELSE generateProviders(body.model.s, body.prompt, up)

\* POST of the generate route; parses is whether `await req.json()` returns
POST_generate(body, up) ==
  LET validation == validateGenerateImageRequest(body) IN
  IF ~body.parses THEN NoDispatch(JsonResponse(500, Undefined, JsonSyntaxError))
  ELSE IF ~validation.isValid
    THEN NoDispatch(JsonResponse(validation.status, Undefined, validation.message))
  ELSE IF body.model.s \notin ModelOption
    THEN NoDispatch(JsonResponse(400, Undefined, "Unsupported model"))
  ELSE generateProviders(body.model.s, body.prompt, up)

\* What the client of a route receives: the handler's Response, or the
\* framework's 500 page when the route's promise rejects.
Delivered(result) ==
  IF result.rejected THEN RawResponse(500, FALSE) ELSE result.resp

\* ------------------------------------------------------------------- state
VARIABLES
  model,         \* useState<ModelOption>('gemini'): the selected model
  imageHistory,  \* useState<GeneratedImage[]>([]): the jobs, newest first
  submitting,    \* useState(false): the busy flag
  now,           \* the value Date.now() returns
  subs,          \* the invocations of handleSubmit: position in the handler,
                 \* locals, request and response
  genLast,       \* the latest call of the generate route: body and result
  editLast,      \* the latest call of the edit route by another client, or
                 \* of an edit handler by other code (direct)
  roundTrip      \* an image on its way through the data URL encoding

vars == <<model, imageHistory, submitting, now, subs, genLast, editLast, roundTrip>>

Subs == 1..MaxSubs

\* the locals of an invocation that has not been made
IdleSub ==
  [pc |-> "idle", nfiles |-> 0, file |-> ImageFile, model |-> "gemini", imageId |-> 0,
   body |-> [parses |-> TRUE, isObject |-> FALSE, prompt |-> Undefined,
             imageUrls |-> [t |-> "undefined", elems |-> <<>>],
             provider |-> Undefined],
   handler |-> "none", resp |-> NoResponse,
   settled |-> "no", imageUrl |-> Undefined, thrown |-> NonError]

\* `img_${Date.now()}`: the id is the clock value behind a fixed prefix
ImageId(clock) == clock

\* const placeholderImage: GeneratedImage = {...}; owner (not a field of the
\* code) names the invocation that made the object
Placeholder(s, imageId, prompt, m, timestamp, attachments) ==
  [id |-> imageId, prompt |-> prompt, model |-> m, timestamp |-> timestamp,
   attachments |-> attachments, isEdit |-> TRUE, isLoading |-> TRUE,
   imageUrl |-> Undefined, error |-> NoMsg, owner |-> s]

\* prev => [placeholderImage, ...prev]
Prepend(placeholderImage, prev) == <<placeholderImage>> \o prev

\* a variant of the result update that does not compare the ids
SetResult_everyJob(prev, imageId, imageUrl) ==
  [i \in DOMAIN prev |-> [prev[i] EXCEPT !.imageUrl = imageUrl, !.isLoading = FALSE]]

\* prev.map(img => img.id === imageId ? {...img, imageUrl, isLoading: false} : img)
SetResult(prev, imageId, imageUrl) ==
  [i \in DOMAIN prev |->
     IF prev[i].id = imageId
       THEN [prev[i] EXCEPT !.imageUrl = imageUrl, !.isLoading = FALSE]
       ELSE prev[i]]

\* error instanceof Error ? error.message : 'Failed to generate image'
ErrorMessage(error) ==
  IF error.isError THEN error.message ELSE Msg("Failed to generate image")

\* a variant of the error update that drops the failed job from the history
SetError_dropsJob(prev, imageId, error) ==
  SelectSeq(prev, LAMBDA img : img.id # imageId)

\* prev.map(img => img.id === imageId ? {...img, isLoading: false, error} : img)
SetError(prev, imageId, error) ==
  [i \in DOMAIN prev |->
     IF prev[i].id = imageId
       THEN [prev[i] EXCEPT !.isLoading = FALSE, !.error = ErrorMessage(error)]
       ELSE prev[i]]

\* a variant of the guards without the upper limit
AcceptsSubmission_noUpperLimit(files) == ~(Len(files) = 0)

\* if (files.length === 0) return; if (files.length > 1) return;
AcceptsSubmission(files) == ~(Len(files) = 0) /\ ~(Len(files) > 1)

\* the JavaScript string of a model option: both names have 6 characters
ModelStr(m) == Str(m, 6)

\* a variant that reads the selection at the time of the request
RequestProvider_current(s) == model

\* the provider of the request: `provider: model`, the model of the closure
RequestProvider(s) == subs[s].model

\* a variant of the request that names the provider `model`, as the body of
\* the generate route does, so that the body has no provider
EditRequest_modelKey(s, imageUrls) ==
  [parses |-> TRUE, isObject |-> TRUE, prompt |-> FixedPrompt,
   imageUrls |-> [t |-> "array", elems |-> imageUrls],
   provider |-> Undefined]

\* the body of the request of editImage({prompt, imageUrls, provider: model})
EditRequest(s, imageUrls) ==
  [parses |-> TRUE, isObject |-> TRUE, prompt |-> FixedPrompt,
   imageUrls |-> [t |-> "array", elems |-> imageUrls],
   provider |-> ModelStr(RequestProvider(s))]

\* a body of a request to the generate route
GenerateBody(prompt, m) ==
  [parses |-> TRUE, isObject |-> TRUE, prompt |-> prompt, model |-> m]

\* a body of a request to the edit route
EditBody(prompt, imageUrls, provider) ==
  [parses |-> TRUE, isObject |-> TRUE, prompt |-> prompt,
   imageUrls |-> imageUrls, provider |-> provider]

\* an image before it is encoded: no bytes, no media type, no data URL
NoRoundTrip ==
  [stage |-> "none", bytes |-> <<>>, mime |-> <<>>, dataUrl |-> <<>>,
   fileBytes |-> <<>>, fileType |-> <<>>]

Init ==
  /\ model = "gemini"
  /\ imageHistory = <<>>
  /\ submitting = FALSE
  /\ now = 0
  /\ subs = [s \in Subs |-> IdleSub]
  /\ genLast = [called |-> FALSE, body |-> GenerateBody(Undefined, Undefined),
                up |-> "none", result |-> NoDispatch(NoResponse)]
  /\ editLast = [called |-> FALSE, direct |-> FALSE,
                 body |-> EditBody(Undefined, [t |-> "undefined", elems |-> <<>>], Undefined),
                 up |-> "none", result |-> NoDispatch(NoResponse)]
  /\ roundTrip = NoRoundTrip

\* ----------------------------------------------------------------- actions
\* a variant of the catch block that sends the request once more
Caught_retries(s, error) ==
  [subs[s] EXCEPT !.pc = IF subs[s].body.isObject THEN "requesting" ELSE "done",
                  !.settled = "error", !.thrown = error]

\* the locals of invocation s with its catch block run on `error`
Caught(s, error) ==
  [subs[s] EXCEPT !.pc = "done", !.settled = "error", !.thrown = error]

\* handleSubmit(message) up to its first await: the guards, setSubmitting(true),
\* the id, and the start of the attachment fetches (lines 235-259)
handleSubmit(files) ==
  \E s \in Subs :
    /\ subs[s].pc = "idle"
    /\ \A r \in 1..(s - 1) : subs[r].pc # "idle"
    /\ IF ~AcceptsSubmission(files)
         THEN /\ subs' = [subs EXCEPT ![s].pc = "returned", ![s].nfiles = Len(files)]
              /\ UNCHANGED submitting
         ELSE /\ submitting' = TRUE
              /\ subs' = [subs EXCEPT ![s] =
                            [IdleSub EXCEPT !.pc = "normalizing", !.nfiles = Len(files),
                                            !.file = files[1], !.model = model,
                                            !.imageId = ImageId(now)]]
    /\ UNCHANGED <<model, imageHistory, now, genLast, editLast, roundTrip>>

\* handleSubmit after `await Promise.all(...)` of the attachment conversion:
\* the placeholder is built and queued, the image files are selected and
\* their fetches started, or the empty selection is thrown and caught
\* (lines 257-320, 343-366). converted: fetch and fileToDataUrl succeeded.
handleSubmit_normalized(s, converted) ==
  /\ subs[s].pc = "normalizing"
  /\ converted \/ IsImageMedia(subs[s].file)
  /\ LET attachmentDataUrls ==
           IF IsImageMedia(subs[s].file)
             THEN <<IF converted THEN DataUrl(s) ELSE BlobUrl(s)>>
             ELSE <<>>
         placeholderImage ==
           Placeholder(s, subs[s].imageId, FixedPrompt, subs[s].model, now,
                       attachmentDataUrls)
         inserted == Prepend(placeholderImage, imageHistory)
         error == ErrorOf(Msg("No image files found in attachments"))
     IN IF ~IsImageFile(subs[s].file)
          THEN /\ imageHistory' = SetError(inserted, subs[s].imageId, error)
               /\ submitting' = FALSE
               /\ subs' = [subs EXCEPT ![s] = Caught(s, error)]
          ELSE /\ imageHistory' = inserted
               /\ subs' = [subs EXCEPT ![s].pc = "encoding"]
               /\ UNCHANGED submitting
  /\ UNCHANGED <<model, now, genLast, editLast, roundTrip>>

\* handleSubmit after `await Promise.all(...)` of the second conversion:
\* editImage sends the request, or the failure of the conversion is caught
\* (lines 311-331, 78-83, 343-366). A failed fetch throws a TypeError, a
\* failed FileReader rejects with its event, which is no Error.
EncodeOutcomes == {"ok", "fetchError", "readerError"}

handleSubmit_encoded(s, outcome) ==
  /\ subs[s].pc = "encoding"
  /\ IF outcome = "ok"
       THEN /\ subs' = [subs EXCEPT ![s].pc = "requesting",
                                    ![s].body = EditRequest(s, <<DataUrl(s)>>)]
            /\ UNCHANGED <<imageHistory, submitting>>
       ELSE LET error == IF outcome = "fetchError"
                           THEN ErrorOf(Msg("Failed to fetch")) ELSE NonError
            IN /\ imageHistory' = SetError(imageHistory, subs[s].imageId, error)
               /\ submitting' = FALSE
               /\ subs' = [subs EXCEPT ![s] = Caught(s, error)]
  /\ UNCHANGED <<model, now, genLast, editLast, roundTrip>>

\* the edit route answers the request of invocation s
editRoute(s, token, up) ==
  /\ subs[s].pc = "requesting"
  /\ token = "token" \/ subs[s].body.provider.s = "openai"
  /\ up = "image" \/ token = "token"
  /\ LET result == POST_edit(subs[s].body, token, up)
     IN subs' = [subs EXCEPT ![s].pc = "responding",
                             ![s].handler = result.handler,
                             ![s].resp = Delivered(result)]
  /\ UNCHANGED <<model, imageHistory, submitting, now, genLast, editLast, roundTrip>>

\* replies that no handler of the routes made: a 200 whose JSON body has no
\* imageUrl, a 200 whose body is no JSON, a 502 of a gateway
GatewayReplies == {RawResponse(200, TRUE)}

gatewayReplies(s, resp) ==
  /\ subs[s].pc = "requesting"
  /\ subs' = [subs EXCEPT ![s].pc = "responding", ![s].resp = resp]
  /\ UNCHANGED <<model, imageHistory, submitting, now, genLast, editLast, roundTrip>>

\* a variant of the rejected fetch whose handler leaves the busy flag set
fetchRejects_keepsBusy(s) ==
  /\ subs[s].pc = "requesting"
  /\ LET error == ErrorOf(Msg("Failed to fetch"))
     IN /\ imageHistory' = SetError(imageHistory, subs[s].imageId, error)
        /\ subs' = [subs EXCEPT ![s] = Caught(s, error)]
  /\ UNCHANGED <<submitting, model, now, genLast, editLast, roundTrip>>

\* fetch('/api/edit-image') rejects: editImage throws into the catch block
fetchRejects(s) ==
  /\ subs[s].pc = "requesting"
  /\ LET error == ErrorOf(Msg("Failed to fetch"))
     IN /\ imageHistory' = SetError(imageHistory, subs[s].imageId, error)
        /\ subs' = [subs EXCEPT ![s] = Caught(s, error)]
  /\ submitting' = FALSE
  /\ UNCHANGED <<model, now, genLast, editLast, roundTrip>>

\* editImage after `await fetch(...)` and the read of the body, and the rest
\* of handleSubmit (lines 85-90, 327, 337-366). The read of the body is a
\* second await that touches no state, so the two stretches are one action.
editImage_returns(s) ==
  /\ subs[s].pc = "responding"
  /\ LET response == subs[s].resp
         error == IF ~Ok(response)
                    THEN ErrorOf(HttpMsg(response.status, response.error))
                    ELSE ErrorOf(Msg("Unexpected token"))
     IN IF Ok(response) /\ response.json
          THEN /\ imageHistory' = SetResult(imageHistory, subs[s].imageId, response.imageUrl)
               /\ subs' = [subs EXCEPT ![s].pc = "done", ![s].settled = "result",
                                       ![s].imageUrl = response.imageUrl]
          ELSE /\ imageHistory' = SetError(imageHistory, subs[s].imageId, error)
               /\ subs' = [subs EXCEPT ![s] = Caught(s, error)]
  /\ submitting' = FALSE
  /\ UNCHANGED <<model, now, genLast, editLast, roundTrip>>

\* onValueChange of the model select: setModel(value)
setModel(value) ==
  /\ value # model
  /\ model' = value
  /\ UNCHANGED <<imageHistory, submitting, now, subs, genLast, editLast, roundTrip>>

\* the clock advances
Tick ==
  /\ now < MaxClock
  /\ now' = now + 1
  /\ UNCHANGED <<model, imageHistory, submitting, subs, genLast, editLast, roundTrip>>

\* what the model call of the handler of a result did; "none" when the
\* route called no handler
UpstreamOf(result, up) == IF result.handler = "none" THEN "none" ELSE up

\* the generate route answers a request of some client
generateRoute(body, up) ==
  /\ LET result == POST_generate(body, up) IN
     genLast' = [called |-> TRUE, body |-> body, up |-> UpstreamOf(result, up),
                 result |-> result]
  /\ UNCHANGED <<model, imageHistory, submitting, now, subs, editLast, roundTrip>>

\* the edit route answers a request of some other client
editRouteCall(body, token, up) ==
  /\ LET result == POST_edit(body, token, up) IN
     editLast' = [called |-> TRUE, direct |-> FALSE, body |-> body,
                  up |-> UpstreamOf(result, up), result |-> result]
  /\ UNCHANGED <<model, imageHistory, submitting, now, subs, genLast, roundTrip>>

Next ==
  \/ \E files \in Messages : handleSubmit(files)
  \/ \E s \in Subs, converted \in BOOLEAN : handleSubmit_normalized(s, converted)
  \/ \E s \in Subs, outcome \in EncodeOutcomes : handleSubmit_encoded(s, outcome)
  \/ \E s \in Subs, token \in {"token", "noToken"}, up \in {"image", "empty"} :
       editRoute(s, token, up)
  \/ \E s \in Subs, resp \in GatewayReplies : gatewayReplies(s, resp)
  \/ \E s \in Subs : fetchRejects(s)
  \/ \E s \in Subs : editImage_returns(s)
  \/ \E value \in ModelOption : setModel(value)
  \/ Tick

\* the controller and the edit route that serves it
Spec == Init /\ [][Next]_vars

\* the next step of invocation s: the continuation after an await that has
\* settled, or the settling of its request
Progress(s) ==
  \/ \E converted \in BOOLEAN : handleSubmit_normalized(s, converted)
  \/ \E outcome \in EncodeOutcomes : handleSubmit_encoded(s, outcome)
  \/ \E token \in {"token", "noToken"}, up \in {"image", "empty"} : editRoute(s, token, up)
  \/ \E resp \in GatewayReplies : gatewayReplies(s, resp)
  \/ fetchRejects(s)
  \/ editImage_returns(s)

\* every asynchronous operation settles and the event loop runs the
\* continuation that waits for it
LiveSpec == Spec /\ \A s \in Subs : WF_vars(Progress(s))

\* bodies sent to the generate route: each model option, and an unknown one
DispatchBodies ==
  {GenerateBody(Str("a valid prompt", 14), Str(m, 6)) : m \in {"openai", "gemini", "dalle"}}

NextDispatch ==
  \/ Next
  \/ \E body \in DispatchBodies : generateRoute(body, "image")

\* the controller and both routes
DispatchSpec == Init /\ [][NextDispatch]_vars

\* ---------------------------------------------- an image through the encoding
\* a file is chosen: its bytes and its media type
selectFile(bytes, type) ==
  /\ roundTrip.stage = "none"
  /\ roundTrip' = [roundTrip EXCEPT !.stage = "file", !.bytes = bytes, !.mime = type]
  /\ UNCHANGED <<model, imageHistory, submitting, now, subs, genLast, editLast>>

\* await fileToDataUrl(file)
encodeFile ==
  /\ roundTrip.stage = "file"
  /\ roundTrip' = [roundTrip EXCEPT !.stage = "encoded",
                     !.dataUrl = fileToDataUrl(roundTrip.bytes, roundTrip.mime)]
  /\ UNCHANGED <<model, imageHistory, submitting, now, subs, genLast, editLast>>

\* dataUrlToFile(url, 'image.png')
decodeDataUrl ==
  /\ roundTrip.stage = "encoded"
  /\ LET file == dataUrlToFile(roundTrip.dataUrl) IN
     roundTrip' = [roundTrip EXCEPT !.stage = IF file.threw THEN "threw" ELSE "decoded",
                     !.fileBytes = file.bytes, !.fileType = file.type]
  /\ UNCHANGED <<model, imageHistory, submitting, now, subs, genLast, editLast>>

NextRoundTrip ==
  \/ \E bytes \in ByteSeqs, type \in MediaTypes : selectFile(bytes, type)
  \/ encodeFile
  \/ decodeDataUrl

\* a file is encoded and the data URL decoded
RoundTripSpec == Init /\ [][NextRoundTrip]_vars

\* ------------------------------------------------- requests to the routes
\* values of the prompt field: absent, a number, and strings around the limits
PromptValues ==
  {Undefined, Num(5), Str("", 0), Str("hi", 2), Str("", PromptMinLen - 1),
   Str("", PromptMinLen), Str("a valid prompt", 14), Str("", PromptMaxLen),
   Str("", PromptMaxLen + 1)}

\* values of the model and provider fields
ModelValues ==
  {Undefined, Num(1), Str("", 0), Str("openai", 6), Str("gemini", 6), Str("dalle", 5)}

\* values of the imageUrls field: absent, a string, and arrays
Array(elems) == [t |-> "array", elems |-> elems]
ImageUrlsValues ==
  {[t |-> "undefined", elems |-> <<>>], [t |-> "string", elems |-> <<>>],
   Array(<<>>), Array(<<DataUrl(1)>>), Array(<<DataUrl(1), DataUrl(2)>>),
   Array(<<Num(7)>>), Array(<<DataUrl(1), Num(7)>>), Array(<<BlobUrl(1)>>)}

\* a body that is JSON but no object (null, a string, a number), and a body
\* that is no JSON
NonObjectGenerateBody == [GenerateBody(Undefined, Undefined) EXCEPT !.isObject = FALSE]
UnparsableGenerateBody ==
  [GenerateBody(Undefined, Undefined) EXCEPT !.isObject = FALSE, !.parses = FALSE]
NonObjectEditBody ==
  [EditBody(Undefined, [t |-> "undefined", elems |-> <<>>], Undefined)
     EXCEPT !.isObject = FALSE]
UnparsableEditBody == [NonObjectEditBody EXCEPT !.parses = FALSE]

GenerateBodies ==
  {GenerateBody(p, m) : p \in PromptValues, m \in ModelValues}
    \cup {NonObjectGenerateBody, UnparsableGenerateBody}

EditBodies ==
  {EditBody(p, u, m) : p \in PromptValues, u \in ImageUrlsValues, m \in ModelValues}
    \cup {NonObjectEditBody, UnparsableEditBody}

\* an edit handler is called by code other than the route, which has not
\* validated the arguments
editHandlerCall(provider, prompt, imageUrls, token, up) ==
  /\ LET result == editProviders(provider, prompt, imageUrls, token, up) IN
     editLast' = [called |-> TRUE, direct |-> TRUE,
                  body |-> EditBody(prompt, Array(imageUrls), Str(provider, 6)),
                  up |-> up, result |-> result]
  /\ UNCHANGED <<model, imageHistory, submitting, now, subs, genLast, roundTrip>>

\* lists of image URLs handed to a handler: none, one, two, one that is no
\* data URL
ImageUrlLists == {<<>>, <<DataUrl(1)>>, <<DataUrl(1), DataUrl(2)>>, <<BlobUrl(1)>>}

NextHandler ==
  /\ ~editLast.called
  /\ \E provider \in ModelOption, imageUrls \in ImageUrlLists,
        prompt \in {Str("", PromptMinLen), Str("a valid prompt", 14), FixedPrompt},
        token \in TokenOutcomes, up \in UpstreamOutcomes :
       editHandlerCall(provider, prompt, imageUrls, token, up)

\* the edit handlers, called with any arguments
HandlerSpec == Init /\ [][NextHandler]_vars

\* the routes keep nothing between two requests: one request to each route,
\* with any body and any behaviour of the provider, covers every request
NextRoute ==
  \/ /\ ~genLast.called
     /\ \E body \in GenerateBodies, up \in UpstreamOutcomes : generateRoute(body, up)
  \/ /\ ~editLast.called
     /\ \E body \in EditBodies, token \in TokenOutcomes, up \in UpstreamOutcomes :
          editRouteCall(body, token, up)

\* the two routes, called with any body
RouteSpec == Init /\ [][NextRoute]_vars

\* ------------------------------------------------------------- properties
\* the job that invocation s inserted, in a history that holds it
HasJobIn(hist, s) == \E i \in DOMAIN hist : hist[i].owner = s
JobIn(hist, s) == hist[CHOOSE i \in DOMAIN hist : hist[i].owner = s]
HasJob(s) == HasJobIn(imageHistory, s)
JobOf(s) == JobIn(imageHistory, s)

Pending(img) == img.isLoading /\ img.imageUrl = Undefined /\ img.error = NoMsg
Succeeded(img) == ~img.isLoading /\ img.imageUrl # Undefined /\ img.error = NoMsg
Failed(img) == ~img.isLoading /\ img.error # NoMsg /\ img.imageUrl = Undefined

\* invocation s passed the guards of handleSubmit
Accepted(s) == subs[s].pc \notin {"idle", "returned"}
\* invocation s sent its request to the edit route
Requested(s) == subs[s].body.isObject
\* the handler of invocation s has run to its end after a request
Settled(s) == subs[s].pc = "done" /\ Requested(s)

Ids(hist) == [i \in DOMAIN hist |-> hist[i].id]
Owners(hist) == [i \in DOMAIN hist |-> hist[i].owner]

\* C1: every job of the history is Pending, Succeeded or Failed; a job that
\* no longer loads has exactly one of imageUrl and error.
C1_JobShapes ==
  \A i \in DOMAIN imageHistory :
    Pending(imageHistory[i]) \/ Succeeded(imageHistory[i]) \/ Failed(imageHistory[i])

\* C2: once a job is Succeeded or Failed, no later step changes its
\* isLoading, imageUrl or error.
C2_TerminalOnce ==
  [][\A s \in Subs :
       (HasJob(s) /\ ~JobOf(s).isLoading) =>
         /\ HasJobIn(imageHistory', s)
         /\ JobIn(imageHistory', s).isLoading = JobOf(s).isLoading
         /\ JobIn(imageHistory', s).imageUrl = JobOf(s).imageUrl
         /\ JobIn(imageHistory', s).error = JobOf(s).error]_vars

\* C3: whenever the handler of an accepted submission has yielded, its
\* Pending job is already at the head or further down the history: the
\* insertion precedes every await of the submission.
C3_InsertedBeforeYield ==
  \A s \in Subs : Accepted(s) => HasJob(s)

\* C4: no two jobs of the history have the same id.
C4_UniqueIds ==
  \A i, j \in DOMAIN imageHistory :
    i # j => imageHistory[i].id # imageHistory[j].id

\* C5: of two submissions that both sent a request and both settled, each
\* job carries the result or the error of its own request.
OwnOutcome(s) ==
  IF subs[s].settled = "result"
    THEN JobOf(s).imageUrl = subs[s].imageUrl /\ JobOf(s).error = NoMsg
    ELSE JobOf(s).error = ErrorMessage(subs[s].thrown) /\ JobOf(s).imageUrl = Undefined

C5_NoCrossContamination ==
  \A a, b \in Subs :
    (a # b /\ Settled(a) /\ Settled(b)) => (OwnOutcome(a) /\ OwnOutcome(b))

\* C6: a submission whose request threw, was rejected or was answered with a
\* non-OK status has a Failed job with the message of the error (or the
\* fallback), which is not empty, and the job is not Succeeded.
C6_FailureBecomesFailed ==
  \A s \in Subs :
    (Settled(s) /\ subs[s].settled = "error") =>
      /\ Failed(JobOf(s))
      /\ JobOf(s).error = ErrorMessage(subs[s].thrown)
      /\ JobOf(s).error.text # ""

\* C7: a submission answered with an OK response that has no imageUrl has a
\* Failed job.
C7_MissingImageBecomesFailed ==
  \A s \in Subs :
    (Settled(s) /\ subs[s].settled = "result" /\ subs[s].imageUrl = Undefined) =>
      Failed(JobOf(s))

C9_SettlementKeepsOrder ==
  [][IF \E s \in Subs : subs[s].pc = "normalizing" /\ subs'[s].pc # "normalizing"
       THEN \E s \in Subs :
              /\ subs[s].pc = "normalizing" /\ subs'[s].pc # "normalizing"
              /\ Ids(imageHistory') = <<subs[s].imageId>> \o Ids(imageHistory)
              /\ Owners(imageHistory') = <<s>> \o Owners(imageHistory)
       ELSE /\ Ids(imageHistory') = Ids(imageHistory)
            /\ Owners(imageHistory') = Owners(imageHistory)]_vars

\* the newer job has settled while the older one is still Pending
C9_Witness ==
  /\ Len(imageHistory) = 2
  /\ ~imageHistory[1].isLoading
  /\ imageHistory[2].isLoading

\* the handler that the providers table of a route holds for a model option
EditHandlerOf(provider) ==
  IF provider = "openai" THEN "handleOpenAIEdit" ELSE "handleGoogleEdit"
GenerateHandlerOf(m) ==
  IF m = "openai" THEN "handleOpenAIGenerate" ELSE "handleGoogleGenerate"

\* a valid request reaches the handler of its own provider in both routes,
\* and the provider of a submission's request is the model of its job, the
\* one that was selected when handleSubmit was called
C10_DispatchState ==
  /\ \A s \in Subs :
       /\ Requested(s) =>
            /\ subs[s].body.provider.s = JobOf(s).model
            /\ subs[s].body.provider.s = subs[s].model
       /\ subs[s].handler # "none" =>
            subs[s].handler = EditHandlerOf(subs[s].body.provider.s)
  /\ genLast.called =>
       IF validateGenerateImageRequest(genLast.body).isValid
         THEN genLast.result.handler = GenerateHandlerOf(genLast.body.model.s)
         ELSE genLast.result.handler = "none"

C11_GenerateValidation ==
  (genLast.called /\ genLast.body.parses) =>
    LET body == genLast.body
        validation == validateGenerateImageRequest(body) IN
    /\ validation.isValid <=>
         /\ body.isObject
         /\ body.prompt.t = "string" /\ body.prompt.n \in 3..1000
         /\ body.model.t = "string" /\ body.model.s \in {"openai", "gemini"}
    /\ ~validation.isValid => validation.status = 400

\* a well-formed prompt with the model 'dalle' has been refused
C11_Witness ==
  /\ genLast.called
  /\ genLast.body = GenerateBody(Str("a valid prompt", 14), Str("dalle", 5))
  /\ ~validateGenerateImageRequest(genLast.body).isValid

\* C12: validateEditImageRequest returns isValid = true exactly for an object
\* with provider 'openai' or 'gemini', a prompt string of length 3..1000 and
\* a non-empty array of strings as imageUrls; every other body is invalid
\* with a message and status 400.
C12_EditValidation ==
  (editLast.called /\ editLast.body.parses) =>
    LET body == editLast.body
        validation == validateEditImageRequest(body) IN
    /\ validation.isValid <=>
         /\ body.isObject
         /\ body.provider.t = "string" /\ body.provider.s \in {"openai", "gemini"}
         /\ body.prompt.t = "string" /\ body.prompt.n \in 3..1000
         /\ body.imageUrls.t = "array" /\ body.imageUrls.elems # <<>>
         /\ \A i \in DOMAIN body.imageUrls.elems : body.imageUrls.elems[i].t = "string"
    /\ ~validation.isValid => (validation.status = 400 /\ validation.message # "")

\* a body that is well formed but for a number among its imageUrls has been
\* refused
C12_Witness ==
  /\ editLast.called
  /\ editLast.body =
       EditBody(Str("", PromptMaxLen), Array(<<DataUrl(1), Num(7)>>), Str("openai", 6))
  /\ ~validateEditImageRequest(editLast.body).isValid

\* C13: in both routes a handler is invoked only for a body that passed
\* validation; when validation fails the response is 400 with the validation
\* message as error, and no handler is invoked.
C13_ValidationGuardsDispatch ==
  /\ genLast.called =>
       LET validation == validateGenerateImageRequest(genLast.body) IN
       /\ genLast.result.handler # "none" => (genLast.body.parses /\ validation.isValid)
       /\ (genLast.body.parses /\ ~validation.isValid) =>
            /\ genLast.result.handler = "none"
            /\ genLast.result.resp = JsonResponse(400, Undefined, validation.message)
  /\ editLast.called =>
       LET validation == validateEditImageRequest(editLast.body) IN
       /\ editLast.result.handler # "none" => (editLast.body.parses /\ validation.isValid)
       /\ (editLast.body.parses /\ ~validation.isValid) =>
            /\ editLast.result.handler = "none"
            /\ editLast.result.resp = JsonResponse(400, Undefined, validation.message)

\* both routes have answered 400 to a body that fails validation, without a
\* handler
C13_Witness ==
  /\ genLast.called /\ genLast.body.parses /\ genLast.body.isObject
  /\ genLast.result = NoDispatch(JsonResponse(400, Undefined, "Prompt must be 3-1000 characters"))
  /\ editLast.called /\ editLast.body.parses /\ editLast.body.isObject
  /\ editLast.result = NoDispatch(JsonResponse(400, Undefined, "At least one image is required"))

\* C14: every error of the provider layer becomes a { error: message }
\* response; no call of a route ends in a rejected promise.
C14_NoErrorEscapes ==
  /\ genLast.called =>
       /\ ~genLast.result.rejected
       /\ genLast.result.resp.status # 200 =>
            (genLast.result.resp.json /\ genLast.result.resp.error # "")
  /\ editLast.called =>
       /\ ~editLast.result.rejected
       /\ editLast.result.resp.status # 200 =>
            (editLast.result.resp.json /\ editLast.result.resp.error # "")

\* C15: every response of the generate route is 200 with an imageUrl string,
\* 400 with an error for a body that breaks the input rules (a body that is
\* no well-formed object included), or 500 with an error for a failure of
\* the provider.
C15_GenerateResponses ==
  genLast.called =>
    LET result == genLast.result
        resp == genLast.result.resp IN
    /\ ~result.rejected
    /\ resp.json
    /\ \/ resp.status = 200 /\ resp.imageUrl.t = "string" /\ result.handler # "none"
       \/ resp.status = 400 /\ resp.error # "" /\ result.handler = "none"
       \/ resp.status = 500 /\ resp.error # "" /\ result.handler # "none"


\* --------------------------------------------------------- the round trip
\* the type is a media type without parameters: no ';' and no ',' in it
NoParameters(type) == \A i \in DOMAIN type : type[i] \notin {";", ","}

\* C16 as stated: for every byte sequence and every media type, decoding the
\* data URL of the encoder yields a file with these bytes and this type.
C16_RoundTripAnyType ==
  roundTrip.stage \in {"decoded", "threw"} =>
    /\ roundTrip.stage = "decoded"
    /\ roundTrip.fileBytes = roundTrip.bytes
    /\ roundTrip.fileType = roundTrip.mime

\* C16 amended: for every byte sequence and every media type without
\* parameters, decoding the data URL of the encoder yields a file with these
\* bytes and this type.
C16_RoundTrip ==
  (roundTrip.stage \in {"decoded", "threw"} /\ NoParameters(roundTrip.mime)) =>
    /\ roundTrip.stage = "decoded"
    /\ roundTrip.fileBytes = roundTrip.bytes
    /\ roundTrip.fileType = roundTrip.mime

\* a JPEG of two bytes, which needs padding, has made the round trip
C16_Witness ==
  /\ roundTrip.stage = "decoded"
  /\ roundTrip.mime = <<"i", "m", "a", "g", "e", "/", "j", "p", "e", "g">>
  /\ roundTrip.bytes = <<165, 255>>
  /\ roundTrip.fileBytes = <<165, 255>>


\* ------------------------------------------------- the controller, continued
\* C17: if every asynchronous operation of a submission settles, every job
\* that is inserted as Pending eventually is Succeeded or Failed.
C17_PendingSettles ==
  \A s \in Subs :
    (HasJob(s) /\ Pending(JobOf(s))) ~>
      (HasJob(s) /\ (Succeeded(JobOf(s)) \/ Failed(JobOf(s))))


\* C18: the busy flag is true from the insertion of a placeholder until the
\* submission settles: whenever the history holds a Pending job, submitting
\* is true, also with several submissions in flight.
C18_BusyWhilePending ==
  (\E i \in DOMAIN imageHistory : Pending(imageHistory[i])) => submitting

\* the place of the job of invocation s in the history, 1 being the head
Position(s) == CHOOSE i \in DOMAIN imageHistory : imageHistory[i].owner = s

\* C19: the history is ordered newest-first by submission: of two accepted
\* submissions, the job of the later one is nearer the head once both jobs
\* are in the history, however long their normalization steps take.
C19_NewestFirstBySubmission ==
  \A a, b \in Subs :
    (a < b /\ HasJob(a) /\ HasJob(b)) => Position(b) < Position(a)

\* C20: a failure to convert an attachment never by itself makes the job
\* Failed: the placeholder is inserted, the request is sent, and the job
\* ends as the response of the provider decides.
C20_ConversionFailureIsNotFatal ==
  \A s \in Subs :
    (subs[s].pc = "done" /\ IsImageFile(subs[s].file)) =>
      /\ HasJob(s)
      /\ Requested(s)


Requests == {s \in Subs : Requested(s)}

\* no more requests than jobs
C22_RequestsWithinJobs == Cardinality(Requests) <= Len(imageHistory)

\* C22: an accepted submission sends at most one request over its life, and
\* a failure is final: a request is sent only by a handler that has sent
\* none, a handler that has ended sends nothing more, and there are never
\* more requests than jobs.
C22_SingleRequest ==
  /\ []C22_RequestsWithinJobs
  /\ [][\A s \in Subs :
          /\ (subs'[s].pc = "requesting" /\ subs[s].pc # "requesting") =>
                (subs[s].pc = "encoding" /\ ~Requested(s))
          /\ Requested(s) => subs'[s].body = subs[s].body
          /\ subs[s].pc = "done" => subs'[s] = subs[s]]_vars

\* a request has failed and its handler has ended, with one request for two
\* jobs
C22_Witness ==
  \E s \in Subs :
    /\ subs[s].pc = "done" /\ Requested(s) /\ subs[s].settled = "error"
    /\ Cardinality(Requests) = 1 /\ Len(imageHistory) = 2


\* ----------------------------------------------------- the provider handlers
\* the model call of the latest edit request was made and returned: the
\* handler had its token and could decode its inputs
EditUpstreamReturned ==
  /\ editLast.called /\ editLast.up \in {"empty", "blank"}
  /\ ~editLast.result.rejected
  /\ editLast.result.resp.status # 401
  /\ editLast.result.resp.error # "InvalidCharacterError"

\* C23: for both providers and both routes, when the model call returns no
\* image the handler answers 500 with the 'no image generated' or 'no edited
\* image' message, never 200; every 200 carries an imageUrl made of an image
\* that was returned.
C23_NoImageIsAnError ==
  /\ (genLast.called /\ genLast.up \in {"empty", "blank"}) =>
       genLast.result.resp = JsonResponse(500, Undefined, NO_IMAGE_GENERATED)
  /\ EditUpstreamReturned =>
       editLast.result.resp = JsonResponse(500, Undefined, NO_EDITED_IMAGE)
  /\ (genLast.called /\ genLast.result.resp.status = 200) =>
       genLast.result.resp.imageUrl.s = "data:generated"
  /\ (editLast.called /\ editLast.result.resp.status = 200) =>
       editLast.result.resp.imageUrl.s = "data:edited"


\* C24: an edit handler that is called with no image returns an error
\* response and makes no model call, whatever the route has validated.
C24_NoImagesIsAnError ==
  (editLast.called /\ editLast.direct /\ editLast.body.imageUrls.elems = <<>>) =>
    /\ ~editLast.result.rejected
    /\ editLast.result.resp.status >= 400
    /\ editLast.result.resp.error # ""
    /\ editLast.result.resp.imageUrl = Undefined


\* ---------------------------------------------------- the frame of settlement
\* invocation s settles in this step: its handler reaches its end
Settles(s) == subs[s].pc # "done" /\ subs'[s].pc = "done"

\* C25: a settlement changes only isLoading, imageUrl and error of the job
\* whose id is the id of the settling submission: id, prompt, model,
\* timestamp, attachments and isEdit of every job stay as they are, and a
\* job with another id is not changed at all.
C25_SettlementFrame ==
  [][\A o \in Subs :
       HasJob(o) =>
         /\ HasJobIn(imageHistory', o)
         /\ JobIn(imageHistory', o).id = JobOf(o).id
         /\ JobIn(imageHistory', o).prompt = JobOf(o).prompt
         /\ JobIn(imageHistory', o).model = JobOf(o).model
         /\ JobIn(imageHistory', o).timestamp = JobOf(o).timestamp
         /\ JobIn(imageHistory', o).attachments = JobOf(o).attachments
         /\ JobIn(imageHistory', o).isEdit = JobOf(o).isEdit
         /\ JobIn(imageHistory', o) # JobOf(o) =>
              \E s \in Subs : Settles(s) /\ subs[s].imageId = JobOf(o).id]_vars

\* of two jobs with different ids one has settled with its image and the
\* other is Pending
C25_Witness ==
  \E a, b \in Subs :
    /\ HasJob(a) /\ HasJob(b) /\ JobOf(a).id # JobOf(b).id
    /\ subs[a].pc = "done" /\ Succeeded(JobOf(a))
    /\ Pending(JobOf(b))


\* C26: every request the controller sends passes validateEditImageRequest:
\* it has the fixed prompt, whose length is in 3..1000, a provider that is
\* 'openai' or 'gemini' and a non-empty list of strings as imageUrls, and it
\* is never answered with 400.
C26_RequestsAreValid ==
  \A s \in Subs :
    Requested(s) =>
      LET body == subs[s].body IN
      /\ body.prompt = FixedPrompt /\ body.prompt.n \in 3..1000
      /\ body.provider.t = "string" /\ body.provider.s \in {"openai", "gemini"}
      /\ body.imageUrls.t = "array" /\ body.imageUrls.elems # <<>>
      /\ \A i \in DOMAIN body.imageUrls.elems : body.imageUrls.elems[i].t = "string"
      /\ validateEditImageRequest(body).isValid
      /\ subs[s].resp.status # 400

\* the route has validated a request of the controller and its handler has
\* answered
C26_Witness ==
  \E s \in Subs :
    /\ Requested(s) /\ subs[s].pc = "done"
    /\ subs[s].handler = "handleOpenAIEdit" /\ subs[s].resp.status = 200


\* ------------------------------------------------------------ the busy flag
\* no submission is in progress: every accepted one has run to its end
Quiescent == \A s \in Subs : subs[s].pc \in {"idle", "returned", "done"}

\* C27: whenever no submission is in progress the busy flag is false, after
\* a success and after a failure alike; and if every asynchronous operation
\* settles, the flag is false for good once the last submission has ended.
C27_BusyFlagResets ==
  /\ [](Quiescent => ~submitting)
  /\ <>[](~submitting)

\* one submission has failed, another has succeeded, none is in progress and
\* the flag is false
C27_Witness ==
  /\ Quiescent /\ ~submitting
  /\ \E a, b \in Subs :
       /\ subs[a].pc = "done" /\ subs[a].settled = "error"
       /\ subs[b].pc = "done" /\ subs[b].settled = "result"

====
